---- MODULE Spec2Model ----
(***************************************************************************)
(* Service A (src/service-a/index.js): an Express handler that waits       *)
(* REQUEST_DELAY, then fires an opossum CircuitBreaker whose action first  *)
(* runs checkRateLimit and then a retry loop of RETRY_COUNT axios.get      *)
(* attempts separated by RETRY_DELAY.  A fallback is registered on the     *)
(* breaker.                                                                *)
(*                                                                         *)
(* One step of the model is one macrotask of the Node.js event loop (a     *)
(* timer callback or an I/O completion) together with all the promise      *)
(* continuations it triggers.  Time is in milliseconds and advances in     *)
(* steps of one rolling-count bucket (1000 ms), the common divisor of all  *)
(* the timer constants of the program.                                     *)
(***************************************************************************)
EXTENDS Integers, Sequences, FiniteSets, TLC

\* ---- program constants (src/service-a/index.js) ----
RETRY_COUNT == 3
RETRY_DELAY == 3000
REQUEST_DELAY == 3000
MAX_REQUESTS == 5
TIME_WINDOW == 60000
timeout == 5000
errorThresholdPercentage == 50
resetTimeout == 10000
volumeThreshold == 3
rollingCountTimeout == 10000
rollingCountBuckets == 10

\* ---- bounds of the model ----
NumSlots == 2       \* requests in flight at once
MaxArrivals == 6    \* inbound requests of a behaviour of Spec
MaxTicks == 27      \* bucket intervals of a behaviour of Spec
ArrivalEvery == 3   \* the client sends on every ArrivalEvery-th bucket interval
SlowTicks == 5      \* bucket intervals a slow downstream answer takes
RLMaxChecks == 11   \* admission checks of a behaviour of SpecRL
MaxFairArrivals == 4 \* inbound requests of a behaviour of FairSpec

Req == 1..NumSlots
NoTimer == -1

VARIABLES
    now,            \* Date.now()
    requests,       \* RATE_LIMIT.requests
    rateLimitCheck, \* what the latest call of checkRateLimit() returned
    admitted,       \* history: the timestamps of all admissions so far
    breaker,        \* the opossum breaker and the reports of its listeners
    hpc,            \* per request: position of the route handler
    apc,            \* per request: position of the breaker action (retry loop)
    attempt,        \* per request: the loop variable `attempt`
    timer,          \* per request: deadline of the pending delay(ms) timer
    tmo,            \* per request: deadline of the breaker's call timeout timer
    timeoutError,   \* per request: opossum's timeoutError flag of the call
    sent,           \* per request: when the pending axios.get was sent
    resp,           \* the latest response written by the handler
    arrivals,       \* number of inbound requests so far
    delays,         \* per request: delay(RETRY_DELAY) calls of its retry loop that have elapsed
    loopResult,     \* what the retry loop that ended at the current instant returned or threw
    responses       \* per request: responses the handler has written for it

vars == <<now, requests, rateLimitCheck, admitted, breaker, hpc, apc, attempt,
          timer, tmo, timeoutError, sent, resp, arrivals, delays, loopResult,
          responses>>

\* ------------------------------------------------------------------------
\* Rate limiter
\* ------------------------------------------------------------------------

\* a / b rounded down
CeilAsFloor(a, b) == a \div b

\* Math.ceil(a / b) for b > 0
Ceil(a, b) == -((-a) \div b)

\* the filter keeping a timestamp that is exactly TIME_WINDOW old
InWindowInclusive(reqs, t) == SelectSeq(reqs, LAMBDA ts : t - ts <= TIME_WINDOW)

\* RATE_LIMIT.requests.filter(timestamp => now - timestamp < TIME_WINDOW)
InWindow(reqs, t) == SelectSeq(reqs, LAMBDA ts : t - ts < TIME_WINDOW)

\* checkRateLimit() admitting while the history holds MAX_REQUESTS entries
checkRateLimitOffByOne(reqs, t) ==
    LET kept == SelectSeq(reqs, LAMBDA ts : t - ts < TIME_WINDOW) IN
    IF Len(kept) > MAX_REQUESTS
    THEN [allowed |-> FALSE,
          timeToWait |-> -((-(TIME_WINDOW - (t - kept[1]))) \div 1000),
          requests |-> kept]
    ELSE [allowed |-> TRUE, timeToWait |-> 0, requests |-> Append(kept, t)]

\* checkRateLimit(): the result, with the new value of RATE_LIMIT.requests
checkRateLimit(reqs, t) ==
    LET kept == InWindow(reqs, t) IN
    IF Len(kept) >= MAX_REQUESTS
    THEN [allowed |-> FALSE,
          timeToWait |-> Ceil(TIME_WINDOW - (t - kept[1]), 1000),
          requests |-> kept]
    ELSE [allowed |-> TRUE, timeToWait |-> 0, requests |-> Append(kept, t)]

NoCheck == [n |-> 0, by |-> 0, at |-> 0, fresh |-> 0,
            allowed |-> FALSE, timeToWait |-> 0, retryAt |-> NoTimer]

\* when the caller refused at t may try again: timeToWait seconds later
RetryAt(rl, t) == t + rl.timeToWait * 1000

\* the n-th call of checkRateLimit(), made by request r at time t; fresh is
\* the number of the latest call made TIME_WINDOW or more after the call before it;
\* retryAt is the earliest time a refusal since the latest admission has told
\* its caller to try again
Checked(prev, rl, r, t) ==
    [n |-> prev.n + 1, by |-> r, at |-> t,
     fresh |-> IF prev.n > 0 /\ t - prev.at >= TIME_WINDOW THEN prev.n + 1 ELSE prev.fresh,
     allowed |-> rl.allowed, timeToWait |-> rl.timeToWait,
     retryAt |-> IF rl.allowed THEN NoTimer
                 ELSE IF prev.retryAt = NoTimer \/ RetryAt(rl, t) < prev.retryAt
                      THEN RetryAt(rl, t)
                      ELSE prev.retryAt]

\* the admissions so far, with this check's if it is allowed
Admit(log, rl, t) == IF rl.allowed THEN Append(log, t) ELSE log

\* ------------------------------------------------------------------------
\* The breaker (opossum CircuitBreaker, as configured at lines 47-87)
\*
\* The library's behaviour as the program uses it: fire() counts the call
\* and rejects it unless the breaker is closed or pending close; a rejected
\* or failed call settles with the registered fallback's value; fail() opens
\* the breaker when it is half open, or when stats.fires has reached
\* volumeThreshold and the error rate exceeds errorThresholdPercentage;
\* 'success' closes a half-open breaker; the call timeout fails the call
\* and leaves the action running; the counts live in rollingCountBuckets
\* buckets that rotate on an interval timer and are not cleared by close().
\* ------------------------------------------------------------------------

Bucket0 == [fires |-> 0, failures |-> 0, successes |-> 0, rejects |-> 0]

\* Status window: rollingCountBuckets buckets, the current one first
Window0 == [i \in 1..rollingCountBuckets |-> Bucket0]

\* rotation of the buckets every rollingCountTimeout / rollingCountBuckets ms
BucketInterval == rollingCountTimeout \div rollingCountBuckets
nextBucket(w) == <<Bucket0>> \o SubSeq(w, 1, Len(w) - 1)

RECURSIVE SumProp(_, _, _)
SumProp(w, p, i) == IF i > Len(w) THEN 0 ELSE w[i][p] + SumProp(w, p, i + 1)

\* breaker.stats: the totals over the rolling window
Stats(b) == [fires     |-> SumProp(b.window, "fires", 1),
             failures  |-> SumProp(b.window, "failures", 1),
             successes |-> SumProp(b.window, "successes", 1),
             rejects   |-> SumProp(b.window, "rejects", 1)]

\* the stats listener of an emitted event
increment(b, p) == [b EXCEPT !.window[1][p] = @ + 1]

\* breaker.open() that, reopening a half-open breaker, does not restart the
\* reset timer from zero
BrOpenStaleTimer(b, t) ==
    IF b.state # "OPEN"
    THEN [b EXCEPT !.state = "OPEN", !.pendingClose = FALSE,
                   !.resetTimer = IF b.state = "HALF_OPEN" THEN t ELSE t + resetTimeout,
                   !.openTimer = t + resetTimeout,
                   !.events = Append(@, "OPEN")]
    ELSE b

\* breaker.open(): emits 'open'.  The breaker's own listener starts the reset
\* timer; the listener of line 108 reports the change and starts a timer of
\* its own (line 114).
BrOpen(b, t) ==
    IF b.state # "OPEN"
    THEN [b EXCEPT !.state = "OPEN", !.pendingClose = FALSE,
                   !.resetTimer = t + resetTimeout,
                   !.openTimer = t + resetTimeout,
                   !.events = Append(@, "OPEN")]
    ELSE b

\* breaker.close(): clears the reset timer, emits 'close' (listener of line 139)
BrClose(b) ==
    IF b.state # "CLOSED"
    THEN [b EXCEPT !.state = "CLOSED", !.pendingClose = FALSE,
                   !.resetTimer = NoTimer,
                   !.events = Append(@, "CLOSED")]
    ELSE b

\* the trip condition of fail(): volume threshold on stats.fires, then the
\* error rate stats.failures / stats.fires * 100 against the threshold
Trips(s) ==
    /\ s.fires >= volumeThreshold
    /\ s.failures * 100 > errorThresholdPercentage * s.fires

\* fail(): emits 'failure', then opens on the trip condition or when half open
BrFail(b, t) ==
    LET b1 == increment(b, "failures") IN
    IF Trips(Stats(b1)) \/ b1.state = "HALF_OPEN" THEN BrOpen(b1, t) ELSE b1

\* emit('success'): the stats listener and the listener closing a half-open breaker
BrSuccess(b) ==
    LET b1 == increment(b, "successes") IN
    IF b1.state = "HALF_OPEN" THEN BrClose(b1) ELSE b1

\* a breaker with no fallback registered
HasFallbackMissing == FALSE

\* breaker.fallback(...) is registered (line 219)
HasFallback == TRUE

\* what fire() settles with on an error: the fallback's value when one is
\* registered, else the error
Settle(err) ==
    IF HasFallback THEN [ok |-> TRUE, val |-> "FALLBACK"]
    ELSE [ok |-> FALSE, val |-> err]

\* ------------------------------------------------------------------------
\* The route handler GET /api/v1/get-data
\* ------------------------------------------------------------------------

NoResp == [status |-> 0, body |-> "none"]

\* no retry loop has ended at the current instant
NoResult == [attempts |-> 0, delays |-> 0, out |-> "none"]

\* the retry loop of request r ends: return response.data, or throw
Returned(r, out) == [attempts |-> attempt[r], delays |-> delays[r], out |-> out]

\* the handler of request r writes a response (res.json)
Written(r) == [responses EXCEPT ![r] = @ + 1]

\* `attempt === RETRY_COUNT` with the comparison failing on the last attempt
LastAttemptOffByOne(a) == a > RETRY_COUNT

\* attempt === RETRY_COUNT (line 75)
LastAttempt(a) == a = RETRY_COUNT

\* the breaker taking the result of a call that has timed out like any other
LateResultNever(r) == FALSE

\* the result of the action arrives after the call has timed out: the breaker
\* drops it
LateResult(r) == timeoutError[r]

\* res.json(result) in the try block, else the catch block
Respond(out, b) ==
    IF out.ok THEN [status |-> 200, body |-> out.val]
    ELSE IF out.val = "RATE_LIMIT_EXCEEDED"
         THEN [status |-> 429, body |-> "Rate limit exceeded"]
    ELSE IF b.state = "OPEN"
         THEN [status |-> 503, body |-> "Service B is unavailable - Circuit Breaker is OPEN"]
    ELSE IF b.state = "HALF_OPEN"
         THEN [status |-> 503, body |-> "Service B is being tested - Circuit Breaker is HALF-OPEN"]
    ELSE [status |-> 503, body |-> "Service B is down"]

Init ==
    /\ now = 0
    /\ requests = <<>>
    /\ rateLimitCheck = NoCheck
    /\ admitted = <<>>
    /\ breaker = [state |-> "CLOSED", pendingClose |-> FALSE,
                  window |-> Window0, resetTimer |-> NoTimer,
                  openTimer |-> NoTimer, events |-> <<>>]
    /\ hpc = [r \in Req |-> "idle"]
    /\ apc = [r \in Req |-> "none"]
    /\ attempt = [r \in Req |-> 0]
    /\ timer = [r \in Req |-> NoTimer]
    /\ tmo = [r \in Req |-> NoTimer]
    /\ timeoutError = [r \in Req |-> FALSE]
    /\ sent = [r \in Req |-> NoTimer]
    /\ resp = NoResp
    /\ arrivals = 0
    /\ delays = [r \in Req |-> 0]
    /\ loopResult = NoResult
    /\ responses = [r \in Req |-> 0]

\* a slot is free when its request was answered and its action has ended
Free(r) == hpc[r] \in {"idle", "responded"} /\ apc[r] = "none"

\* the client sends on every ArrivalEvery-th bucket interval
ArrivalInstant == (now \div BucketInterval) % ArrivalEvery = 0

\* the downstream answers at once or after SlowTicks bucket intervals (or never)
Answers(r) == now - sent[r] \in {0, SlowTicks * BucketInterval}

\* the downstream refuses the connection at once
Refuses(r) == now = sent[r]

\* the action of request r has returned or thrown: its locals are gone
EndAction(r) ==
    /\ apc' = [apc EXCEPT ![r] = "none"]
    /\ attempt' = [attempt EXCEPT ![r] = 0]
    /\ timeoutError' = [timeoutError EXCEPT ![r] = FALSE]
    /\ sent' = [sent EXCEPT ![r] = NoTimer]
    /\ delays' = [delays EXCEPT ![r] = 0]

\* An inbound request: the handler starts and awaits delay(REQUEST_DELAY)
Arrive(r) ==
    /\ Free(r)
    /\ \A q \in Req : q < r => ~Free(q)
    /\ arrivals < MaxArrivals
    /\ ArrivalInstant
    /\ now + REQUEST_DELAY + timeout <= MaxTicks * BucketInterval
    /\ arrivals' = arrivals + 1
    /\ hpc' = [hpc EXCEPT ![r] = "delay"]
    /\ timer' = [timer EXCEPT ![r] = now + REQUEST_DELAY]
    /\ responses' = [responses EXCEPT ![r] = 0]
    /\ UNCHANGED <<now, requests, rateLimitCheck, admitted, breaker, apc, attempt,
                   tmo, timeoutError, sent, resp, delays, loopResult>>

\* REQUEST_DELAY elapsed: breaker.fire().  When the breaker is neither closed
\* nor pending close the call is rejected; else the action starts: the rate
\* limit check, and then the first axios.get.
Fire(r) ==
    /\ hpc[r] = "delay"
    /\ timer[r] # NoTimer /\ timer[r] <= now
    /\ timer' = [timer EXCEPT ![r] = NoTimer]
    /\ LET b1 == increment(breaker, "fires") IN
       IF b1.state # "CLOSED" /\ ~b1.pendingClose
       THEN LET b2 == increment(b1, "rejects") IN
            /\ breaker' = b2
            /\ resp' = Respond(Settle("EOPENBREAKER"), b2)
            /\ hpc' = [hpc EXCEPT ![r] = "responded"]
            /\ responses' = Written(r)
            /\ UNCHANGED <<requests, rateLimitCheck, admitted, apc, attempt, tmo, sent>>
       ELSE LET b2 == [b1 EXCEPT !.pendingClose = FALSE]
                rl == checkRateLimit(requests, now) IN
            /\ requests' = rl.requests
            /\ rateLimitCheck' = Checked(rateLimitCheck, rl, r, now)
            /\ admitted' = Admit(admitted, rl, now)
            /\ IF ~rl.allowed
               THEN LET b3 == BrFail(b2, now) IN
                    /\ breaker' = b3
                    /\ resp' = Respond(Settle("RATE_LIMIT_EXCEEDED"), b3)
                    /\ hpc' = [hpc EXCEPT ![r] = "responded"]
                    /\ responses' = Written(r)
                    /\ UNCHANGED <<apc, attempt, tmo, sent>>
               ELSE /\ breaker' = b2
                    /\ hpc' = [hpc EXCEPT ![r] = "awaiting"]
                    /\ apc' = [apc EXCEPT ![r] = "axios"]
                    /\ attempt' = [attempt EXCEPT ![r] = 1]
                    /\ tmo' = [tmo EXCEPT ![r] = now + timeout]
                    /\ sent' = [sent EXCEPT ![r] = now]
                    /\ UNCHANGED <<resp, responses>>
    /\ UNCHANGED <<now, arrivals, timeoutError, delays, loopResult>>

\* axios.get resolves: the action returns response.data.  Unless the call has
\* timed out the breaker emits 'success' and the handler sends the payload.
AxiosOk(r) ==
    /\ apc[r] = "axios"
    /\ Answers(r)
    /\ EndAction(r)
    /\ loopResult' = Returned(r, "DATA")
    /\ IF LateResult(r)
       THEN UNCHANGED <<breaker, resp, hpc, tmo, responses>>
       ELSE LET b1 == BrSuccess(breaker) IN
            /\ breaker' = b1
            /\ resp' = Respond([ok |-> TRUE, val |-> "DATA"], b1)
            /\ hpc' = [hpc EXCEPT ![r] = "responded"]
            /\ tmo' = [tmo EXCEPT ![r] = NoTimer]
            /\ responses' = Written(r)
    /\ UNCHANGED <<now, requests, rateLimitCheck, admitted, timer, arrivals>>

\* axios.get rejects: the catch block.  On the last attempt the action throws
\* ECONNREFUSED; else the loop goes on and awaits delay(RETRY_DELAY).
AxiosFail(r) ==
    /\ apc[r] = "axios"
    /\ Refuses(r)
    /\ IF LastAttempt(attempt[r])
       THEN /\ EndAction(r)
            /\ loopResult' = Returned(r, "ECONNREFUSED")
            /\ UNCHANGED timer
            /\ IF LateResult(r)
               THEN UNCHANGED <<breaker, resp, hpc, tmo, responses>>
               ELSE LET b1 == BrFail(breaker, now) IN
                    /\ breaker' = b1
                    /\ resp' = Respond(Settle("ECONNREFUSED"), b1)
                    /\ hpc' = [hpc EXCEPT ![r] = "responded"]
                    /\ tmo' = [tmo EXCEPT ![r] = NoTimer]
                    /\ responses' = Written(r)
       ELSE /\ apc' = [apc EXCEPT ![r] = "sleep"]
            /\ attempt' = [attempt EXCEPT ![r] = @ + 1]
            /\ timer' = [timer EXCEPT ![r] = now + RETRY_DELAY]
            /\ sent' = [sent EXCEPT ![r] = NoTimer]
            /\ UNCHANGED <<breaker, resp, hpc, tmo, timeoutError, delays,
                           loopResult, responses>>
    /\ UNCHANGED <<now, requests, rateLimitCheck, admitted, arrivals>>

\* RETRY_DELAY elapsed: the next axios.get starts
RetryDelayDone(r) ==
    /\ apc[r] = "sleep"
    /\ timer[r] # NoTimer /\ timer[r] <= now
    /\ apc' = [apc EXCEPT ![r] = "axios"]
    /\ sent' = [sent EXCEPT ![r] = now]
    /\ timer' = [timer EXCEPT ![r] = NoTimer]
    /\ delays' = [delays EXCEPT ![r] = @ + 1]
    /\ UNCHANGED <<now, requests, rateLimitCheck, admitted, breaker, hpc, attempt,
                   tmo, timeoutError, resp, arrivals, loopResult, responses>>

\* a call timeout that fires without settling the call
TimeoutNotSettling(r) ==
    /\ tmo[r] # NoTimer /\ tmo[r] <= now
    /\ tmo' = [tmo EXCEPT ![r] = NoTimer]
    /\ UNCHANGED <<now, requests, rateLimitCheck, admitted, breaker, hpc, apc,
                   attempt, timer, timeoutError, sent, resp, arrivals, delays,
                   loopResult, responses>>

\* The breaker's call timeout fires: timeoutError is set, the call is failed
\* and settled; the action itself keeps running.
Timeout(r) ==
    /\ tmo[r] # NoTimer /\ tmo[r] <= now
    /\ timeoutError' = [timeoutError EXCEPT ![r] = TRUE]
    /\ tmo' = [tmo EXCEPT ![r] = NoTimer]
    /\ LET b1 == BrFail(breaker, now) IN
       /\ breaker' = b1
       /\ resp' = Respond(Settle("ETIMEDOUT"), b1)
    /\ hpc' = [hpc EXCEPT ![r] = "responded"]
    /\ responses' = Written(r)
    /\ UNCHANGED <<now, requests, rateLimitCheck, admitted, apc, attempt, timer,
                   sent, arrivals, delays, loopResult>>

\* a reset timer that closes the breaker without a trial call
ResetTimerClosing ==
    /\ breaker.resetTimer # NoTimer /\ breaker.resetTimer <= now
    /\ breaker' = [breaker EXCEPT !.state = "CLOSED", !.pendingClose = FALSE,
                                  !.resetTimer = NoTimer,
                                  !.events = Append(@, "CLOSED")]
    /\ UNCHANGED <<now, requests, rateLimitCheck, admitted, hpc, apc, attempt,
                   timer, tmo, timeoutError, sent, resp, arrivals, delays,
                   loopResult, responses>>

\* The reset timer fires: the breaker becomes half open, pending close, and
\* emits 'halfOpen' (listener of line 128)
ResetTimer ==
    /\ breaker.resetTimer # NoTimer /\ breaker.resetTimer <= now
    /\ breaker' = [breaker EXCEPT !.state = "HALF_OPEN", !.pendingClose = TRUE,
                                  !.resetTimer = NoTimer,
                                  !.events = Append(@, "HALF-OPEN")]
    /\ UNCHANGED <<now, requests, rateLimitCheck, admitted, hpc, apc, attempt,
                   timer, tmo, timeoutError, sent, resp, arrivals, delays,
                   loopResult, responses>>

\* The timer of the 'open' listener (line 114) fires, after the reset timer
\* set before it for the same delay: it reports HALF-OPEN if the breaker is
\* half open
OpenListenerTimer ==
    /\ breaker.openTimer # NoTimer /\ breaker.openTimer <= now
    /\ breaker.resetTimer = NoTimer \/ breaker.resetTimer > now
    /\ breaker' = [breaker EXCEPT
                      !.openTimer = NoTimer,
                      !.events = IF breaker.state = "HALF_OPEN"
                                 THEN Append(@, "HALF-OPEN") ELSE @]
    /\ UNCHANGED <<now, requests, rateLimitCheck, admitted, hpc, apc, attempt,
                   timer, tmo, timeoutError, sent, resp, arrivals, delays,
                   loopResult, responses>>

\* no timer is due
NoneDue ==
    /\ \A r \in Req : timer[r] = NoTimer \/ timer[r] > now
    /\ \A r \in Req : tmo[r] = NoTimer \/ tmo[r] > now
    /\ breaker.resetTimer = NoTimer \/ breaker.resetTimer > now
    /\ breaker.openTimer = NoTimer \/ breaker.openTimer > now

\* Time passes by one bucket interval; the status window rotates
Tick ==
    /\ NoneDue
    /\ now < MaxTicks * BucketInterval
    /\ now' = now + BucketInterval
    /\ breaker' = [breaker EXCEPT !.window = nextBucket(@)]
    /\ loopResult' = NoResult
    /\ UNCHANGED <<requests, rateLimitCheck, admitted, hpc, apc, attempt, timer,
                   tmo, timeoutError, sent, resp, arrivals, delays, responses>>

Next ==
    \/ \E r \in Req : Arrive(r)
    \/ \E r \in Req : Fire(r)
    \/ \E r \in Req : AxiosOk(r)
    \/ \E r \in Req : AxiosFail(r)
    \/ \E r \in Req : RetryDelayDone(r)
    \/ \E r \in Req : Timeout(r)
    \/ ResetTimer
    \/ OpenListenerTimer
    \/ Tick

Spec == Init /\ [][Next]_vars

\* Timers fire: the event loop runs every timer callback that is due, and time
\* passes.  Nothing is assumed of the client or of the downstream, which may
\* never answer.
TimersFire ==
    /\ WF_vars(Tick)
    /\ WF_vars(ResetTimer)
    /\ WF_vars(OpenListenerTimer)
    /\ \A r \in Req : WF_vars(Fire(r))
    /\ \A r \in Req : WF_vars(RetryDelayDone(r))
    /\ \A r \in Req : WF_vars(Timeout(r))

\* an inbound request of a client that sends MaxFairArrivals requests
ArriveOfFew(r) == Arrive(r) /\ arrivals < MaxFairArrivals

NextFair ==
    \/ \E r \in Req : ArriveOfFew(r)
    \/ \E r \in Req : Fire(r)
    \/ \E r \in Req : AxiosOk(r)
    \/ \E r \in Req : AxiosFail(r)
    \/ \E r \in Req : RetryDelayDone(r)
    \/ \E r \in Req : Timeout(r)
    \/ ResetTimer
    \/ OpenListenerTimer
    \/ Tick

FairSpec == Init /\ [][NextFair]_vars /\ TimersFire

\* ------------------------------------------------------------------------
\* A downstream that answers every call at once with success
\* ------------------------------------------------------------------------

\* axios.get resolves in the instant it was sent
AxiosOkAtOnce(r) == AxiosOk(r) /\ now = sent[r]

\* time passes while no downstream call is pending
TickNoPending == Tick /\ \A r \in Req : apc[r] # "axios"

NextAllOk ==
    \/ \E r \in Req : Arrive(r)
    \/ \E r \in Req : Fire(r)
    \/ \E r \in Req : AxiosOkAtOnce(r)
    \/ TickNoPending

SpecAllOk == Init /\ [][NextAllOk]_vars

\* ------------------------------------------------------------------------
\* The rate limiter on its own: admission checks at non-decreasing times
\* ------------------------------------------------------------------------

\* the gaps between one admission check and the next, in ms
RLGaps == {1, TIME_WINDOW - 1, TIME_WINDOW}

\* a caller runs checkRateLimit() at the current time
RLCheck ==
    /\ rateLimitCheck.n < RLMaxChecks
    /\ LET rl == checkRateLimit(requests, now) IN
       /\ requests' = rl.requests
       /\ rateLimitCheck' = Checked(rateLimitCheck, rl, 0, now)
       /\ admitted' = Admit(admitted, rl, now)
    /\ UNCHANGED <<now, breaker, hpc, apc, attempt, timer, tmo, timeoutError,
                   sent, resp, arrivals, delays, loopResult, responses>>

\* time passes between two admission checks
RLAdvance(d) ==
    /\ rateLimitCheck.n > 0 /\ rateLimitCheck.at = now
    /\ rateLimitCheck.n < RLMaxChecks
    /\ now' = now + d
    /\ UNCHANGED <<requests, rateLimitCheck, admitted, breaker, hpc, apc, attempt,
                   timer, tmo, timeoutError, sent, resp, arrivals, delays,
                   loopResult, responses>>

NextRL ==
    \/ RLCheck
    \/ \E d \in RLGaps : RLAdvance(d)

SpecRL == Init /\ [][NextRL]_vars

\* ------------------------------------------------------------------------
\* Properties
\* ------------------------------------------------------------------------

\* this step is a call of checkRateLimit()
CheckStep == rateLimitCheck'.n = rateLimitCheck.n + 1

\* this step is breaker.fire() of request r
FireStep(r) == hpc[r] = "delay" /\ hpc'[r] # "delay"

\* this step records a failure in the breaker's current bucket
FailureStep == breaker'.window[1].failures = breaker.window[1].failures + 1

\* the admissions of the whole history that are less than TIME_WINDOW old at t
Recent(log, t) == SelectSeq(log, LAMBDA ts : t - ts < TIME_WINDOW)

\* C1: a check is allowed exactly when fewer than MAX_REQUESTS of all earlier
\* admissions are less than TIME_WINDOW old; an allowed check appends its own
\* timestamp and nothing else to the history, a refused check appends nothing
\* and returns a wait greater than 0.
C1_AdmissionRule ==
    [][CheckStep =>
         /\ rateLimitCheck'.allowed <=> Len(Recent(admitted, now)) < MAX_REQUESTS
         /\ rateLimitCheck'.allowed =>
               /\ admitted' = Append(admitted, now)
               /\ requests' = Append(Recent(admitted, now), now)
         /\ ~rateLimitCheck'.allowed =>
               /\ admitted' = admitted
               /\ requests' = Recent(admitted, now)
               /\ rateLimitCheck'.timeToWait > 0]_vars

\* C1 witness: a check was refused with a positive wait after older
\* admissions had already left the window
C1_Witness ==
    /\ rateLimitCheck.n > 0
    /\ ~rateLimitCheck.allowed
    /\ rateLimitCheck.timeToWait > 0
    /\ Len(admitted) > Len(requests)

\* C2: the check made TIME_WINDOW or more after the check before it leaves
\* only its own timestamp in the history, and it and the MAX_REQUESTS - 1
\* checks after it are all allowed.
C2_FreshBurst ==
    (rateLimitCheck.fresh > 0 /\ rateLimitCheck.n < rateLimitCheck.fresh + MAX_REQUESTS)
    => /\ rateLimitCheck.allowed
       /\ rateLimitCheck.n = rateLimitCheck.fresh => requests = <<rateLimitCheck.at>>

\* C2 witness: checks were refused, TIME_WINDOW passed, and the burst of
\* MAX_REQUESTS checks after it has just been admitted in full
C2_Witness ==
    /\ rateLimitCheck.fresh > MAX_REQUESTS + 1
    /\ rateLimitCheck.n = rateLimitCheck.fresh + MAX_REQUESTS - 1
    /\ rateLimitCheck.allowed
    /\ Len(admitted) < rateLimitCheck.n

\* C3: every breaker.fire() of a request is preceded by an admission check of
\* that request, in every breaker state.
C3_LimiterBeforeBreaker ==
    [][\A r \in Req : FireStep(r) => CheckStep /\ rateLimitCheck'.by = r]_vars

\* C4: a refused admission check leaves the breaker's counters and state as
\* they were, and a step that records a failure is no refused check.
C4_RefusalNotCounted ==
    [][/\ (CheckStep /\ ~rateLimitCheck'.allowed) =>
             /\ Stats(breaker') = Stats(breaker)
             /\ breaker'.state = breaker.state
       /\ FailureStep => ~(CheckStep /\ ~rateLimitCheck'.allowed)]_vars

\* C5: the request whose admission check is refused is answered 429 with the
\* rate-limit message.
C5_Refusal429 ==
    [][(CheckStep /\ ~rateLimitCheck'.allowed) =>
          /\ hpc'[rateLimitCheck'.by] = "responded"
          /\ resp'.status = 429
          /\ resp'.body = "Rate limit exceeded"]_vars

\* C6: when a failure is recorded on a CLOSED breaker, it opens exactly when
\* the window holds at least volumeThreshold calls and
\* failures / calls * 100 >= errorThresholdPercentage.
C6_TripAtThreshold ==
    [][(breaker.state = "CLOSED" /\ FailureStep) =>
          (breaker'.state = "OPEN" <=>
              /\ Stats(breaker').fires >= volumeThreshold
              /\ Stats(breaker').failures * 100
                   >= errorThresholdPercentage * Stats(breaker').fires)]_vars

\* C7: while the breaker is OPEN no request starts a downstream call.
C7_NoCallWhileOpen ==
    [][\A r \in Req : (apc[r] # "axios" /\ apc'[r] = "axios") =>
                         breaker.state # "OPEN"]_vars

\* C8: a call fired on a HALF_OPEN breaker whose trial has been let through
\* is not executed and is answered 503 with the breaker-testing message.
C8_TrialBusyRejection ==
    [][\A r \in Req :
          (FireStep(r) /\ breaker.state = "HALF_OPEN" /\ ~breaker.pendingClose) =>
              /\ apc'[r] = "none"
              /\ resp'.status = 503
              /\ resp'.body = "Service B is being tested - Circuit Breaker is HALF-OPEN"]_vars

\* C9: when the breaker goes from HALF_OPEN to CLOSED its rolling counts are
\* all zero.
C9_CloseResetsCounts ==
    [][(breaker.state = "HALF_OPEN" /\ breaker'.state = "CLOSED") =>
          Stats(breaker') = Bucket0]_vars

\* C10: a failure recorded on a HALF_OPEN breaker reopens it with the reset
\* timer set resetTimeout ahead; an OPEN breaker keeps that deadline and
\* leaves OPEN only to HALF_OPEN and only once the deadline is reached.
C10_ReopenFullTimeout ==
    [][/\ (breaker.state = "HALF_OPEN" /\ FailureStep) =>
             /\ breaker'.state = "OPEN"
             /\ breaker'.resetTimer = now + resetTimeout
       /\ (breaker.state = "OPEN" /\ breaker'.state = "OPEN") =>
             breaker'.resetTimer = breaker.resetTimer
       /\ (breaker.state = "OPEN" /\ breaker'.state # "OPEN") =>
             /\ breaker'.state = "HALF_OPEN"
             /\ breaker.resetTimer # NoTimer
             /\ now >= breaker.resetTimer]_vars

\* C10 witness: the breaker was reopened from HALF_OPEN and is waiting
C10_Witness ==
    /\ breaker.state = "OPEN"
    /\ breaker.events = <<"OPEN", "HALF-OPEN", "HALF-OPEN", "OPEN">>
    /\ breaker.resetTimer > now

\* this step starts a downstream attempt (axios.get) of request r
AttemptStep(r) == apc[r] # "axios" /\ apc'[r] = "axios"

\* this step ends the retry loop of request r
LoopEnds(r) == apc[r] = "axios" /\ apc'[r] = "none"

\* C11: the attempts of a retry loop are numbered 1, 2, 3 in order, attempt k
\* starting after exactly k - 1 elapsed delays; a successful attempt k ends the
\* loop, which returns the payload after k attempts and k - 1 delays; a failed
\* attempt before the last is followed by a delay of RETRY_DELAY and the next
\* attempt; the failed attempt RETRY_COUNT ends the loop at once, which throws
\* ECONNREFUSED after RETRY_COUNT attempts and RETRY_COUNT - 1 delays.
C11_RetryLoop ==
    [][\A r \in Req :
          /\ AttemptStep(r) =>
                /\ attempt'[r] = (IF apc[r] = "none" THEN 1 ELSE attempt[r])
                /\ attempt'[r] <= RETRY_COUNT
                /\ delays'[r] = attempt'[r] - 1
          /\ AxiosOk(r) =>
                /\ LoopEnds(r)
                /\ loopResult' = [attempts |-> attempt[r], delays |-> attempt[r] - 1,
                                   out |-> "DATA"]
          /\ AxiosFail(r) =>
                IF attempt[r] < RETRY_COUNT
                THEN /\ apc'[r] = "sleep"
                     /\ attempt'[r] = attempt[r] + 1
                     /\ timer'[r] = now + RETRY_DELAY
                     /\ loopResult' = loopResult
                ELSE /\ LoopEnds(r)
                     /\ loopResult' = [attempts |-> RETRY_COUNT,
                                        delays |-> RETRY_COUNT - 1,
                                        out |-> "ECONNREFUSED"]]_vars

\* C11 witness: a loop has returned the payload on its third attempt, after
\* two failed attempts and two delays
C11_Witness == loopResult = [attempts |-> 3, delays |-> 2, out |-> "DATA"]

\* C12: the call timeout fires while the retry loop of the call is running
\* and records one failure; from then on no step of that loop, its end with a
\* payload or an error included, changes the breaker or writes a response.
C12_TimeoutOneFailure ==
    [][\A r \in Req :
          /\ (~timeoutError[r] /\ timeoutError'[r]) =>
                /\ apc[r] \in {"axios", "sleep"} /\ apc'[r] = apc[r]
                /\ now = tmo[r] /\ now - timeout >= 0
                /\ Stats(breaker').failures = Stats(breaker).failures + 1
                /\ Stats(breaker').successes = Stats(breaker).successes
          /\ (timeoutError[r] /\ (apc'[r] # apc[r] \/ attempt'[r] # attempt[r])) =>
                /\ breaker' = breaker
                /\ resp' = resp
                /\ responses' = responses
                /\ hpc' = hpc]_vars

\* C12 witness: a retry loop has returned the payload while the breaker is
\* OPEN: the call had timed out and its late success was dropped
C12_Witness ==
    /\ loopResult.out = "DATA"
    /\ breaker.state = "OPEN"
    /\ resp.body = "FALLBACK"

\* C13: every inbound request is eventually answered, and the handler never
\* writes a second response for a request.
C13_OneResponse ==
    /\ \A r \in Req : (hpc[r] = "delay") ~> (hpc[r] = "responded" /\ responses[r] = 1)
    /\ [](\A r \in Req : responses[r] <= 1)

\* C13 witness: a request was answered while its downstream call had not
\* answered and the breaker was no longer CLOSED
C13_Witness ==
    \E r \in Req :
        /\ responses[r] = 1
        /\ apc[r] = "axios" /\ timeoutError[r]
        /\ breaker.state # "CLOSED"

\* this step writes the response of request r
ResponseStep(r) == responses'[r] = responses[r] + 1

\* this step is the call timeout of request r
TimeoutStep(r) == ~timeoutError[r] /\ timeoutError'[r]

\* this step records a rejection in the breaker's current bucket
RejectStep == breaker'.window[1].rejects = breaker.window[1].rejects + 1

\* C14: a response with status 200 is written only by the step in which a
\* downstream attempt of that request succeeds, and carries the downstream
\* payload; a request fired on an OPEN breaker, and a request whose loop
\* throws ECONNREFUSED, are answered 503.
C14_StatusByOutcome ==
    [][\A r \in Req : ResponseStep(r) =>
          /\ resp'.status = 200 =>
                (AxiosOk(r) /\ loopResult'.out = "DATA" /\ resp'.body = "DATA")
          /\ (FireStep(r) /\ breaker.state = "OPEN") => resp'.status = 503
          /\ (LoopEnds(r) /\ loopResult'.out = "ECONNREFUSED") =>
                resp'.status = 503]_vars

\* C15: every response is a success (status 200), never an error; a call
\* rejected by the breaker is counted as a rejection and not as a failure, a
\* call that times out or whose action throws is counted as a failure, and
\* both are answered with the fallback payload.
C15_FallbackDelivered ==
    [][\A r \in Req : ResponseStep(r) =>
          /\ resp'.status = 200
          /\ resp'.body \in {"DATA", "FALLBACK"}
          /\ (FireStep(r) /\ breaker.state # "CLOSED" /\ ~breaker.pendingClose) =>
                /\ resp'.body = "FALLBACK"
                /\ RejectStep
                /\ Stats(breaker').failures = Stats(breaker).failures
          /\ (TimeoutStep(r) \/ (LoopEnds(r) /\ loopResult'.out = "ECONNREFUSED")) =>
                /\ resp'.body = "FALLBACK"
                /\ FailureStep
                /\ Stats(breaker').rejects = Stats(breaker).rejects]_vars

\* C15 witness: the latest response is the fallback payload with status 200,
\* and the window holds a rejection and a failure
C15_Witness ==
    /\ resp = [status |-> 200, body |-> "FALLBACK"]
    /\ Stats(breaker).rejects > 0
    /\ Stats(breaker).failures > 0

\* C16: the call timeout ends the retry loop of the call (no delay stays
\* pending), and a call that has timed out starts no further downstream
\* attempt.
C16_TimeoutCancelsRetries ==
    [][\A r \in Req :
          /\ TimeoutStep(r) => (apc'[r] = "none" /\ timer'[r] = NoTimer)
          /\ timeoutError[r] => ~AttemptStep(r)]_vars

\* the report the listeners write for a state
Report(st) == IF st = "HALF_OPEN" THEN "HALF-OPEN" ELSE st

\* C17: the breaker starts CLOSED, and its state changes only from CLOSED to
\* OPEN on a recorded failure, from OPEN to HALF_OPEN when the reset timer is
\* due, from HALF_OPEN to CLOSED on a recorded success and from HALF_OPEN to
\* OPEN on a recorded failure.
C17_AllowedEdges ==
    /\ breaker.state = "CLOSED"
    /\ [][breaker'.state # breaker.state =>
            \/ /\ breaker.state = "CLOSED" /\ breaker'.state = "OPEN"
               /\ FailureStep
            \/ /\ breaker.state = "OPEN" /\ breaker'.state = "HALF_OPEN"
               /\ breaker.resetTimer # NoTimer /\ breaker.resetTimer <= now
               /\ Stats(breaker') = Stats(breaker)
            \/ /\ breaker.state = "HALF_OPEN" /\ breaker'.state = "CLOSED"
               /\ breaker'.window[1].successes = breaker.window[1].successes + 1
            \/ /\ breaker.state = "HALF_OPEN" /\ breaker'.state = "OPEN"
               /\ FailureStep]_vars

\* C17 witness: the breaker has gone CLOSED, OPEN, HALF_OPEN, CLOSED while a
\* call that timed out before it opened is still running
C17_Witness ==
    /\ breaker.state = "CLOSED"
    /\ breaker.events = <<"OPEN", "HALF-OPEN", "HALF-OPEN", "CLOSED">>
    /\ \E r \in Req : hpc[r] = "responded" /\ apc[r] = "axios" /\ timeoutError[r]

\* C18: a step that changes the breaker's state appends exactly the report of
\* the new state to the log, and a step that does not change it appends
\* nothing.
C18_OneReportPerChange ==
    [][/\ breaker'.state # breaker.state =>
             breaker'.events = Append(breaker.events, Report(breaker'.state))
       /\ breaker'.state = breaker.state =>
             breaker'.events = breaker.events]_vars

\* C19: while the breaker has never opened, a call whose attempts 1 and 2
\* failed at once and whose attempt 3 succeeds at once is answered with the
\* payload and recorded as a success, and a call whose attempt 3 fails as
\* well is recorded as a failure in the step in which attempt 3 fails.
C19_TimeoutCoversRetries ==
    [][\A r \in Req :
          (breaker.events = <<>> /\ attempt[r] = RETRY_COUNT /\ now = sent[r]) =>
              /\ AxiosOk(r) =>
                    /\ ResponseStep(r)
                    /\ resp' = [status |-> 200, body |-> "DATA"]
                    /\ breaker'.window[1].successes = breaker.window[1].successes + 1
              /\ AxiosFail(r) => FailureStep]_vars

\* C20: with a downstream that answers every call at once with success the
\* breaker is CLOSED and the latest response is not the fallback payload.
C20_AllOkStaysClosed ==
    /\ breaker.state = "CLOSED"
    /\ resp.body # "FALLBACK"

\* C21: a refused check returns the least whole number w of seconds with
\* w * 1000 >= TIME_WINDOW - (now - oldest admission still in the window); and
\* a check made w seconds or more after a refusal, with no admission since
\* that refusal, is allowed.
C21_WaitSufficient ==
    [][CheckStep =>
         /\ ~rateLimitCheck'.allowed =>
               LET left == TIME_WINDOW - (now - Recent(admitted, now)[1])
                   w == rateLimitCheck'.timeToWait
               IN  /\ w * 1000 >= left
                   /\ (w - 1) * 1000 < left
         /\ (rateLimitCheck.retryAt # NoTimer /\ now >= rateLimitCheck.retryAt) =>
               rateLimitCheck'.allowed]_vars

\* C21 witness: a check was refused with a wait rounded up from a fraction of
\* a second, and the check made after that wait has been allowed
C21_Witness ==
    /\ rateLimitCheck.allowed
    /\ rateLimitCheck.n > MAX_REQUESTS + 1
    /\ Len(admitted) = MAX_REQUESTS + 1
    /\ admitted[MAX_REQUESTS + 1] = now
    /\ admitted[MAX_REQUESTS + 1] - admitted[MAX_REQUESTS] > TIME_WINDOW - 1000
    /\ (admitted[MAX_REQUESTS + 1] - admitted[1]) % 1000 # 0

TypeOK ==
    /\ breaker.state \in {"CLOSED", "OPEN", "HALF_OPEN"}
    /\ Len(requests) <= MAX_REQUESTS
====
